---- MODULE Spec2Model ----
(***************************************************************************)
(* A model of kernel/lib/code-patching/hermetic-stub.py: one invocation of *)
(* main() is a walk of pc through the statements of main(), over a file    *)
(* system `fs` that maps paths to files.  Strings are sequences of         *)
(* one-character strings; a piece of template text is kept as one element. *)
(***************************************************************************)
EXTENDS Integers, Sequences, FiniteSets, TLC

VARIABLES argv, args, fs, year, pc, err, metadata, i, max_size, alternatives,
          j, pre, prev, trace

vars == <<argv, args, fs, year, pc, err, metadata, i, max_size, alternatives,
          j, pre, prev, trace>>

-----------------------------------------------------------------------------
(* Bounds of the model.                                                    *)

MaxAliases == 2
MaxEntries == 2

-----------------------------------------------------------------------------
(* Python values and string operations.                                    *)

\* Python's None, as the value of an option that was not given.
None == <<"<None>">>

\* ord(c) for the characters that occur in the model.
ord(c) ==
    CASE c = " " -> 32 [] c = "." -> 46 [] c = "1" -> 49 [] c = ":" -> 58
      [] c = "B" -> 66 [] c = "S" -> 83 [] c = "_" -> 95
      [] c = "a" -> 97 [] c = "b" -> 98 [] c = "c" -> 99 [] c = "d" -> 100
      [] c = "f" -> 102 [] c = "h" -> 104 [] c = "m" -> 109 [] c = "o" -> 111
      [] c = "x" -> 120 [] c = "y" -> 121
      [] OTHER -> 0

\* str.upper() on one character.
upper_char(c) ==
    CASE c = "a" -> "A" [] c = "b" -> "B" [] c = "c" -> "C" [] c = "d" -> "D"
      [] c = "f" -> "F" [] c = "h" -> "H" [] c = "m" -> "M" [] c = "o" -> "O"
      [] c = "x" -> "X" [] c = "y" -> "Y"
      [] OTHER -> c

\* str.upper()
upper(s) == [k \in 1..Len(s) |-> upper_char(s[k])]

\* s < t on Python strings: lexicographic by code point, a proper prefix first.
RECURSIVE str_lt(_, _)
str_lt(s, t) ==
    IF t = <<>> THEN FALSE
    ELSE IF s = <<>> THEN TRUE
    ELSE IF ord(Head(s)) # ord(Head(t)) THEN ord(Head(s)) < ord(Head(t))
    ELSE str_lt(Tail(s), Tail(t))

\* Insertion of x into the sorted list xs, after the elements not greater.
RECURSIVE insert_sorted(_, _)
insert_sorted(x, xs) ==
    IF xs = <<>> THEN <<x>>
    ELSE IF str_lt(x, Head(xs)) THEN <<x>> \o xs
    ELSE <<Head(xs)>> \o insert_sorted(x, Tail(xs))

\* The list as it is, without sorting.
sorted_as_given(xs) == xs

\* sorted(xs) on a list of strings (stable, ascending).
RECURSIVE sorted(_)
sorted(xs) ==
    IF xs = <<>> THEN <<>>
    ELSE insert_sorted(xs[Len(xs)], sorted(SubSeq(xs, 1, Len(xs) - 1)))

\* sep.join(xs)
RECURSIVE join(_, _)
join(sep, xs) ==
    IF xs = <<>> THEN <<>>
    ELSE IF Len(xs) = 1 THEN xs[1]
    ELSE xs[1] \o sep \o join(sep, Tail(xs))

\* One decimal digit as a character.
digit(d) ==
    CASE d = 0 -> "0" [] d = 1 -> "1" [] d = 2 -> "2" [] d = 3 -> "3"
      [] d = 4 -> "4" [] d = 5 -> "5" [] d = 6 -> "6" [] d = 7 -> "7"
      [] d = 8 -> "8" [] d = 9 -> "9"

\* str(n) for a non-negative int.
RECURSIVE str_int(_)
str_int(n) == IF n < 10 THEN <<digit(n)>> ELSE str_int(n \div 10) \o <<digit(n % 10)>>

\* str(v) as the "%s" conversion and Template.substitute apply it to a string or None.
str(v) == IF v = None THEN <<"N", "o", "n", "e">> ELSE v

\* The later operand, whichever is larger.
max_latest(a, b) == b

\* max(a, b)
max(a, b) == IF b > a THEN b ELSE a

\* Template.substitute(): every placeholder of the template is replaced by its value.
RECURSIVE substitute(_, _)
substitute(template, mapping) ==
    IF template = <<>> THEN <<>>
    ELSE (IF Head(template) \in DOMAIN mapping
            THEN mapping[Head(template)]
            ELSE <<Head(template)>>)
         \o substitute(Tail(template), mapping)

STUB_CONTENTS ==
    << "// Copyright ", "$year",
       " The Fuchsia Authors\n//\n// Use of this source code is governed by a MIT-style\n// license that can be found in the LICENSE file or at\n// https://opensource.org/licenses/MIT\n\n// GENERATED BY //zircon/kernel/lib/code-patching/hermetic-stub.py.\n// DO NOT EDIT.\n\n#include <lib/arch/asm.h>\n#include <lib/code-patching/asm.h>\n#include <",
       "$header", ">  // Defines ", "$case_id", ".\n\n.text\n\n.function ",
       "$function_name", ", global\n  .code_patching.blob ", "$size", ", ",
       "$case_id", "\n.end_function\n" >>

ALIAS ==
    << "\n.weak ", "$alias", "\n.hidden ", "$alias", "\n", "$alias", " = ",
       "$function_name", "\n" >>

\* The prefix before the name as it is written, without upper().
case_id_of_verbatim(name) == <<"C", "A", "S", "E", "_", "I", "D", "_">> \o name

\* "CASE_ID_%s" % name.upper()
case_id_of(name) == <<"C", "A", "S", "E", "_", "I", "D", "_">> \o upper(name)

\* "%s: %s\n" % (outfile, " ".join(sorted(alternatives)))
depfile_line(outfile, alts) ==
    str(outfile) \o <<":", " ">> \o join(<<" ">>, sorted(alts)) \o <<"\n">>

-----------------------------------------------------------------------------
(* Files.                                                                  *)

NoFile == [kind |-> "none", json |-> <<>>, size |-> 0, text |-> <<>>]
Blob(n) == [kind |-> "blob", json |-> <<>>, size |-> n, text |-> <<>>]
Json(v) == [kind |-> "json", json |-> v, size |-> 1, text |-> <<>>]
Text(t, n) == [kind |-> "text", json |-> <<>>, size |-> n, text |-> t]

\* Number of bytes of a piece of text.
RECURSIVE byte_len(_)
byte_len(t) == IF t = <<>> THEN 0 ELSE Len(Head(t)) + byte_len(Tail(t))

\* open(path, "a"): an existing file keeps its content.
open_a(f, path) == IF f[path].kind = "text" THEN f ELSE [f EXCEPT ![path] = Text(<<>>, 0)]

\* open(path, "w"): the file is created or truncated.
open_w(f, path) == [f EXCEPT ![path] = Text(<<>>, 0)]

\* file.write(text) on a file opened for writing: the text goes to the end.
write(f, path, t) ==
    [f EXCEPT ![path] = Text(f[path].text \o t, f[path].size + byte_len(t))]

\* The file opened for writing instead of reading.
open_r_truncating(f, path) == [f EXCEPT ![path] = Text(<<>>, 0)]

\* open(path, "r"): the file system is left as it is.
open_r(f, path) == f

\* Every path taken to name a file.
exists_always(f, path) == TRUE

\* os.path.exists / the condition under which open(path, "r") and getsize succeed.
exists(f, path) == path \in DOMAIN f /\ f[path].kind # "none"

\* os.path.getsize(path)
getsize(f, path) == f[path].size

-----------------------------------------------------------------------------
(* The inputs of an invocation.                                            *)

MetaPath == <<"m">>
DepPath == <<"d">>
OutPath == <<"o">>
HeaderPath == <<"h">>

\* The metadata file, the two outputs and the header are distinct files, none of
\* them an alternative, as the build rule that invokes the tool names them.
\* Alternative files that exist on disk, and one path that names no file.
AltPaths == {<<"a">>, <<"a", "b">>, <<"b">>}
MissingPath == <<"c">>
Paths == {MetaPath, DepPath, OutPath, HeaderPath, MissingPath} \cup AltPaths

\* The byte sizes the alternative files may have.
AltSizes ==
    { (<<"a">> :> 10) @@ (<<"a", "b">> :> 0) @@ (<<"b">> :> 30),
      (<<"a">> :> 30) @@ (<<"a", "b">> :> 10) @@ (<<"b">> :> 10) }

Names == {<<"f", "o">>, <<"a", "B", "_", "1">>}
AliasNames == {<<"x">>, <<"y">>}
Years == {2021, 2022}
Options == {"name", "header", "metadata_file", "depfile", "outfile"}

\* Sequences over S of length at most n.
SeqUpTo(S, n) == UNION {[1..k -> S] : k \in 0..n}

\* One element of the metadata array: an object with or without a "path" key.
Entry(p) == [hasPath |-> TRUE, path |-> p]
NoPathEntry == [hasPath |-> FALSE, path |-> <<>>]
Entries == {Entry(p) : p \in AltPaths \cup {MissingPath}} \cup {NoPathEntry}

\* What the output paths hold before a run: nothing, or a file of an earlier build.
Stale == Text(<<"stale\n">>, 6)

\* The metadata file: missing, not JSON, or a JSON array of entries.
MetaFiles == {NoFile, Stale} \cup {Json(m) : m \in SeqUpTo(Entries, MaxEntries)}

\* The command lines: at most one of the five options is left out.
Argvs ==
    { [given |-> g, name |-> n, header |-> HeaderPath, metadata_file |-> MetaPath,
       depfile |-> DepPath, outfile |-> OutPath, aliases |-> al] :
         g \in {Options} \cup {Options \ {o} : o \in Options},
         n \in Names, al \in SeqUpTo(AliasNames, MaxAliases) }

\* parser.parse_args(): an option that is not given is None, none is required.
parse_args(av) ==
    [name |-> IF "name" \in av.given THEN av.name ELSE None,
     header |-> IF "header" \in av.given THEN av.header ELSE None,
     metadata_file |-> IF "metadata_file" \in av.given THEN av.metadata_file ELSE None,
     depfile |-> IF "depfile" \in av.given THEN av.depfile ELSE None,
     outfile |-> IF "outfile" \in av.given THEN av.outfile ELSE None,
     aliases |-> <<>> \o av.aliases]

NoArgs == parse_args([given |-> {}, name |-> None, header |-> None,
                      metadata_file |-> None, depfile |-> None, outfile |-> None,
                      aliases |-> <<>>])

NoPrev == [valid |-> FALSE, year |-> 0, dep |-> NoFile, out |-> NoFile]

-----------------------------------------------------------------------------
(* The state machine.                                                      *)

Init ==
    /\ argv \in Argvs
    /\ args = NoArgs
    /\ \E sz \in AltSizes, mf \in MetaFiles, old \in {NoFile, Stale} :
         fs = [p \in Paths |->
                 IF p \in AltPaths THEN Blob(sz[p])
                 ELSE IF p = MetaPath THEN mf
                 ELSE IF p = HeaderPath THEN Text(<<"#define CASE_ID_FO 1\n">>, 21)
                 ELSE IF p \in {DepPath, OutPath} THEN old
                 ELSE NoFile]
    /\ year \in Years
    /\ pc = "start"
    /\ err = ""
    /\ metadata = <<>>
    /\ i = 1
    /\ max_size = 0
    /\ alternatives = <<>>
    /\ j = 1
    /\ pre = fs
    /\ prev = NoPrev
    /\ trace = <<>>

\* The dependency file written before the sizes are queried.
MainBody_depfile_first ==
    <<"start", "load", "depfile", "loop", "open_stub", "render", "aliases">>

\* The stub written before the dependency file.
MainBody_stub_first ==
    <<"start", "load", "loop", "open_stub", "render", "aliases", "depfile">>

\* The statements of main() after the argument parser is built, in program order.
MainBody == <<"start", "load", "loop", "depfile", "open_stub", "render", "aliases">>

\* The statement that follows statement p, "done" after the last one.
after(p) ==
    LET k == CHOOSE n \in 1..Len(MainBody) : MainBody[n] = p
    IN IF k = Len(MainBody) THEN "done" ELSE MainBody[k + 1]

\* An uncaught exception ends the run.
Raise(e) == pc' = "failed" /\ err' = e

\* args = parser.parse_args()
ParseArgs ==
    /\ pc = "start"
    /\ args' = parse_args(argv)
    /\ pc' = after("start")
    /\ UNCHANGED <<argv, fs, year, err, metadata, i, max_size, alternatives, j,
                   pre, prev, trace>>

\* with open(args.metadata_file, "r") as metadata_file: metadata = json.load(...)
\* followed by the initialisation of max_size and alternatives.
LoadMetadata ==
    /\ pc = "load"
    /\ IF args.metadata_file = None
         THEN Raise("TypeError") /\ UNCHANGED <<fs, metadata, trace>>
       ELSE IF ~exists(fs, args.metadata_file)
         THEN Raise("FileNotFoundError") /\ UNCHANGED <<fs, metadata, trace>>
       ELSE /\ fs' = open_r(fs, args.metadata_file)
            /\ IF fs'[args.metadata_file].kind # "json"
                 THEN /\ Raise("JSONDecodeError")
                      /\ trace' = Append(trace, "open_metadata")
                      /\ UNCHANGED metadata
                 ELSE /\ metadata' = fs'[args.metadata_file].json
                      /\ trace' = trace \o <<"open_metadata", "load_metadata">>
                      /\ pc' = after("load")
                      /\ err' = err
    /\ max_size' = 0
    /\ alternatives' = <<>>
    /\ i' = 1
    /\ UNCHANGED <<argv, args, year, j, pre, prev>>

\* One iteration of: for entry in metadata
LoopEntry ==
    /\ pc = "loop"
    /\ i <= Len(metadata)
    /\ LET entry == metadata[i] IN
         IF ~entry.hasPath
           THEN Raise("KeyError") /\ UNCHANGED <<alternatives, max_size, i, trace>>
         ELSE IF ~exists(fs, entry.path)
           THEN /\ Raise("FileNotFoundError")
                /\ alternatives' = Append(alternatives, entry.path)
                /\ UNCHANGED <<max_size, i, trace>>
         ELSE /\ alternatives' = Append(alternatives, entry.path)
              /\ max_size' = max(max_size, getsize(fs, entry.path))
              /\ i' = i + 1
              /\ trace' = Append(trace, "getsize")
              /\ UNCHANGED <<pc, err>>
    /\ UNCHANGED <<argv, args, fs, year, metadata, j, pre, prev>>

\* The end of: for entry in metadata
LoopDone ==
    /\ pc = "loop"
    /\ i > Len(metadata)
    /\ pc' = after("loop")
    /\ UNCHANGED <<argv, args, fs, year, err, metadata, i, max_size, alternatives,
                   j, pre, prev, trace>>

\* with open(args.depfile, "w") as depfile: depfile.write(...)
WriteDepfile ==
    /\ pc = "depfile"
    /\ IF args.depfile = None
         THEN Raise("TypeError") /\ UNCHANGED <<fs, trace>>
         ELSE /\ fs' = write(open_w(fs, args.depfile), args.depfile,
                             depfile_line(args.outfile, alternatives))
              /\ trace' = trace \o <<"open_depfile", "write_depfile", "close_depfile">>
              /\ pc' = after("depfile")
              /\ err' = err
    /\ UNCHANGED <<argv, args, year, metadata, i, max_size, alternatives, j, pre, prev>>

\* with open(args.outfile, "w") as stub
OpenStub ==
    /\ pc = "open_stub"
    /\ IF args.outfile = None
         THEN Raise("TypeError") /\ UNCHANGED <<fs, trace>>
         ELSE /\ fs' = open_w(fs, args.outfile)
              /\ trace' = Append(trace, "open_stub")
              /\ pc' = after("open_stub")
              /\ err' = err
    /\ UNCHANGED <<argv, args, year, metadata, i, max_size, alternatives, j, pre, prev>>

\* The keyword arguments of STUB_CONTENTS.substitute().
stub_mapping(a, y, size) ==
    ("$year" :> str_int(y)) @@ ("$header" :> str(a.header))
      @@ ("$function_name" :> str(a.name)) @@ ("$case_id" :> case_id_of(a.name))
      @@ ("$size" :> str_int(size))

\* stub.write(STUB_CONTENTS.substitute(...)); None has no upper().
WriteStub ==
    /\ pc = "render"
    /\ IF args.name = None
         THEN /\ Raise("AttributeError")
              /\ trace' = Append(trace, "close_stub")
              /\ UNCHANGED fs
         ELSE /\ fs' = write(fs, args.outfile,
                             substitute(STUB_CONTENTS, stub_mapping(args, year, max_size)))
              /\ trace' = Append(trace, "write_template")
              /\ pc' = after("render")
              /\ err' = err
    /\ j' = 1
    /\ UNCHANGED <<argv, args, year, metadata, i, max_size, alternatives, pre, prev>>

\* The two keyword arguments of ALIAS.substitute() exchanged.
alias_mapping_swapped(alias, name) ==
    ("$alias" :> str(name)) @@ ("$function_name" :> str(alias))

\* The keyword arguments of ALIAS.substitute().
alias_mapping(alias, name) ==
    ("$alias" :> str(alias)) @@ ("$function_name" :> str(name))

\* One iteration of: for alias in args.aliases
WriteAlias ==
    /\ pc = "aliases"
    /\ j <= Len(args.aliases)
    /\ fs' = write(fs, args.outfile,
                   substitute(ALIAS, alias_mapping(args.aliases[j], args.name)))
    /\ j' = j + 1
    /\ trace' = Append(trace, "write_alias")
    /\ UNCHANGED <<argv, args, year, pc, err, metadata, i, max_size, alternatives,
                   pre, prev>>

\* The end of the alias loop and of the with block: the stub is closed, main() returns.
CloseStub ==
    /\ pc = "aliases"
    /\ j > Len(args.aliases)
    /\ pc' = after("aliases")
    /\ trace' = Append(trace, "close_stub")
    /\ UNCHANGED <<argv, args, fs, year, err, metadata, i, max_size, alternatives,
                   j, pre, prev>>

\* The build runs the tool again on the same command line and inputs; meanwhile
\* the year may have changed and the outputs may have been removed or replaced.
Rerun ==
    /\ pc = "done"
    /\ prev' = [valid |-> TRUE, year |-> year,
                dep |-> fs[args.depfile], out |-> fs[args.outfile]]
    /\ year' \in Years
    /\ \E old \in {"keep", "remove", "replace"} :
         fs' = [p \in Paths |->
                  IF p \in {DepPath, OutPath} /\ old = "remove" THEN NoFile
                  ELSE IF p \in {DepPath, OutPath} /\ old = "replace" THEN Stale
                  ELSE fs[p]]
    /\ pre' = fs'
    /\ args' = NoArgs
    /\ pc' = "start"
    /\ err' = ""
    /\ metadata' = <<>>
    /\ i' = 1
    /\ max_size' = 0
    /\ alternatives' = <<>>
    /\ j' = 1
    /\ trace' = <<>>
    /\ UNCHANGED argv

\* The statements of one run of main().
Step ==
    \/ ParseArgs
    \/ LoadMetadata
    \/ LoopEntry
    \/ LoopDone
    \/ WriteDepfile
    \/ OpenStub
    \/ WriteStub
    \/ WriteAlias
    \/ CloseStub

Next == Step \/ Rerun

Spec == Init /\ [][Next]_vars

\* One run for one function name, one alias and one assignment of sizes, none of
\* which the loading of the metadata depends on.
InitRun ==
    /\ Init
    /\ argv.name = <<"f", "o">>
    /\ argv.aliases = << <<"x">> >>
    /\ year = 2021
    /\ fs[<<"b">>].size = 30
    /\ fs[OutPath] = NoFile

\* One run of main(), which the interpreter executes to its end: a statement
\* that can execute does.
FairSpec == InitRun /\ [][Step]_vars /\ WF_vars(Step)

-----------------------------------------------------------------------------
(* Reading the two output files back.                                      *)

Range(s) == {s[k] : k \in 1..Len(s)}

\* The index of the first occurrence of x in s at or after from, 0 if there is none.
IndexFrom(s, x, from) ==
    IF \E k \in from..Len(s) : s[k] = x
      THEN CHOOSE k \in from..Len(s) : s[k] = x /\ \A l \in from..(k - 1) : s[l] # x
      ELSE 0

\* The text strictly between the first occurrence of a and the next occurrence of b.
Between(s, a, b) ==
    LET ka == IndexFrom(s, a, 1)
        kb == IndexFrom(s, b, ka + 1)
    IN IF ka = 0 \/ kb = 0 THEN <<"?">> ELSE SubSeq(s, ka + 1, kb - 1)

\* The text after the first occurrence of a.
After(s, a) ==
    LET ka == IndexFrom(s, a, 1)
    IN IF ka = 0 THEN <<"?">> ELSE SubSeq(s, ka + 1, Len(s))

\* The pieces of s between the occurrences of the character sep.
RECURSIVE Split(_, _)
Split(s, sep) ==
    LET k == IndexFrom(s, sep, 1)
    IN IF k = 0 THEN <<s>>
       ELSE <<SubSeq(s, 1, k - 1)>> \o Split(SubSeq(s, k + 1, Len(s)), sep)

\* The value of a decimal numeral, -1 if the text is no numeral.
DigitValue(c) ==
    CASE c = "0" -> 0 [] c = "1" -> 1 [] c = "2" -> 2 [] c = "3" -> 3 [] c = "4" -> 4
      [] c = "5" -> 5 [] c = "6" -> 6 [] c = "7" -> 7 [] c = "8" -> 8 [] c = "9" -> 9
      [] OTHER -> -1

RECURSIVE DecimalValue(_)
DecimalValue(t) ==
    IF t = <<>> \/ \E k \in 1..Len(t) : DigitValue(t[k]) < 0 THEN -1
    ELSE IF Len(t) = 1 THEN DigitValue(t[1])
    ELSE 10 * DecimalValue(SubSeq(t, 1, Len(t) - 1)) + DigitValue(t[Len(t)])

\* The largest element of a set of naturals, 0 for the empty set.
Largest(S) == IF S = {} THEN 0 ELSE CHOOSE m \in S : \A x \in S : x <= m

\* s <= t in lexicographic order by code point.
LexLeq(s, t) ==
    \E k \in 0..Len(s) :
       /\ k <= Len(t)
       /\ SubSeq(s, 1, k) = SubSeq(t, 1, k)
       /\ \/ k = Len(s)
          \/ k < Len(t) /\ ord(s[k + 1]) < ord(t[k + 1])

\* The stub and the dependency file as they are on disk, and the metadata array.
StubText == fs[OutPath].text
DepText == fs[DepPath].text
MetaOnDisk == fs[MetaPath].json
ListedPaths == {MetaOnDisk[k].path : k \in 1..Len(MetaOnDisk)}

\* The size operand and the case-id operand of the .code_patching.blob directive.
BlobSizeField == Between(StubText, ", global\n  .code_patching.blob ", ", ")
BlobCaseField == Between(After(StubText, ", global\n  .code_patching.blob "),
                         ", ", "\n.end_function\n")
\* The case id named in the comment of the #include line.
IncludeCaseField == Between(StubText, ">  // Defines ", ".\n\n.text\n\n.function ")

-----------------------------------------------------------------------------
(* The claims.                                                             *)

\* C1: after a successful run the size operand of the .code_patching.blob
\* directive in the stub is the decimal numeral of the largest on-disk byte size
\* among the alternative files the metadata lists, and of 0 for an empty list.
C1_BlobSizeIsMaxAlternativeSize ==
    pc = "done" =>
      DecimalValue(BlobSizeField) = Largest({fs[p].size : p \in ListedPaths})

\* A successful run over two alternatives of which the first is the larger one.
C1_Witness ==
    /\ pc = "done"
    /\ Len(MetaOnDisk) = 2
    /\ fs[MetaOnDisk[1].path].size > fs[MetaOnDisk[2].path].size
    /\ DecimalValue(BlobSizeField) = 30

\* The dependency file read back: its target and its list of paths.
DepLineOk ==
    /\ Len(DepText) >= 3
    /\ DepText[Len(DepText)] = "\n"
    /\ IndexFrom(DepText, "\n", 1) = Len(DepText)
    /\ IndexFrom(DepText, ":", 1) > 0
    /\ DepText[IndexFrom(DepText, ":", 1) + 1] = " "
DepTarget == SubSeq(DepText, 1, IndexFrom(DepText, ":", 1) - 1)
DepRest == SubSeq(DepText, IndexFrom(DepText, ":", 1) + 2, Len(DepText) - 1)
DepPaths == IF DepRest = <<>> THEN <<>> ELSE Split(DepRest, " ")

\* C2: after a successful run the dependency file is one newline-terminated
\* line "<outfile>: <paths>" whose target is the --outfile argument and whose
\* space-separated paths are in ascending lexicographic order and are exactly
\* the path values of the metadata file (none for an empty array).
C2_DepfileListsSortedPaths ==
    pc = "done" =>
      /\ DepLineOk
      /\ DepTarget = argv.outfile
      /\ \A a, b \in 1..Len(DepPaths) : a < b => LexLeq(DepPaths[a], DepPaths[b])
      /\ Range(DepPaths) = ListedPaths

\* A successful run whose metadata lists two paths in descending order.
C2_Witness ==
    /\ pc = "done"
    /\ Len(MetaOnDisk) = 2
    /\ MetaOnDisk[1].path # MetaOnDisk[2].path
    /\ LexLeq(MetaOnDisk[2].path, MetaOnDisk[1].path)
    /\ Len(DepPaths) = 2

\* The case identifier of each function name of the model, written out.
ExpectedCaseId ==
    (<<"f", "o">> :> <<"C", "A", "S", "E", "_", "I", "D", "_", "F", "O">>)
      @@ (<<"a", "B", "_", "1">> :>
            <<"C", "A", "S", "E", "_", "I", "D", "_", "A", "B", "_", "1">>)

\* C3: after a successful run the case identifier in the include comment and in
\* the blob directive is CASE_ID_ followed by the function name in upper case,
\* whatever the aliases, the header and the metadata are.
C3_CaseIdIsUppercasedName ==
    pc = "done" =>
      /\ IncludeCaseField = ExpectedCaseId[argv.name]
      /\ BlobCaseField = ExpectedCaseId[argv.name]

\* A successful run for a mixed-case name, without a header, with aliases.
C3_Witness ==
    /\ pc = "done"
    /\ argv.name = <<"a", "B", "_", "1">>
    /\ "header" \notin argv.given
    /\ Len(argv.aliases) = 2
    /\ BlobCaseField = <<"C", "A", "S", "E", "_", "I", "D", "_", "A", "B", "_", "1">>

\* What follows the function body in the stub.
StubTail == After(StubText, "\n.end_function\n")

\* The text cut in front of every ".weak" line but a leading one.
RECURSIVE SplitBlocks(_)
SplitBlocks(t) ==
    IF t = <<>> THEN <<>>
    ELSE LET k == IndexFrom(t, "\n.weak ", 2)
         IN IF k = 0 THEN <<t>>
            ELSE <<SubSeq(t, 1, k - 1)>> \o SplitBlocks(SubSeq(t, k, Len(t)))

\* The block that declares alias weak and hidden and binds it to name.
AliasBlockFor(alias, name) ==
    <<"\n.weak ">> \o alias \o <<"\n.hidden ">> \o alias
      \o <<"\n">> \o alias \o <<" = ">> \o name \o <<"\n">>

\* C4: after a successful run the stub holds, after the function body and
\* nothing else, one alias block for each --aliases argument in the order given
\* (duplicates included); the n-th block declares the n-th alias .weak and
\* .hidden and sets it equal to the function name.
C4_OneAliasBlockPerAliasInOrder ==
    pc = "done" =>
      SplitBlocks(StubTail) =
        [n \in 1..Len(argv.aliases) |-> AliasBlockFor(argv.aliases[n], argv.name)]

\* A successful run with two different aliases given in descending order.
C4_Witness ==
    /\ pc = "done"
    /\ argv.aliases = << <<"y">>, <<"x">> >>
    /\ Len(SplitBlocks(StubTail)) = 2

\* C5: a second run on the same command line, metadata and alternative sizes in
\* the same calendar year leaves the dependency file and the stub byte for byte
\* as the first run left them, whatever the two paths held in between.
C5_RerunIsByteIdentical ==
    (pc = "done" /\ prev.valid /\ prev.year = year) =>
      /\ fs[DepPath] = prev.dep
      /\ fs[OutPath] = prev.out

\* A second successful run in the same year that found other files at both paths.
C5_Witness ==
    /\ pc = "done"
    /\ prev.valid
    /\ prev.year = year
    /\ pre[DepPath] = Stale
    /\ pre[OutPath] = Stale
    /\ Len(argv.aliases) > 0

\* The metadata file is missing or no JSON, or it lists a path that names no file.
BadMetadata ==
    \/ fs[MetaPath].kind # "json"
    \/ \E k \in 1..Len(MetaOnDisk) :
         MetaOnDisk[k].hasPath /\ fs[MetaOnDisk[k].path].kind = "none"

\* C6: when the metadata file is missing, is no JSON or lists a path that does
\* not exist, the run never completes successfully, it ends in the failed state,
\* and a failed run stays failed (nothing catches the error or retries).
C6_BadMetadataIsFatal ==
    /\ [](BadMetadata => pc # "done")
    /\ (BadMetadata ~> pc = "failed")
    /\ [][pc = "failed" => pc' = "failed"]_vars

\* A run that failed on the second entry of the metadata, a path without a file.
C6_Witness ==
    /\ pc = "failed"
    /\ err = "FileNotFoundError"
    /\ BadMetadata
    /\ Len(alternatives) = 2
    /\ i = 2

\* C7: an invocation that leaves out one of --name, --header, --metadata-file,
\* --depfile, --outfile neither completes successfully nor creates or changes
\* the stub file.
C7_OmittedOptionFailsWithoutStub ==
    argv.given # Options => (pc # "done" /\ fs[OutPath] = pre[OutPath])

\* The files this run has opened for writing.
WrittenThisRun ==
    (IF "open_depfile" \in Range(trace) THEN {args.depfile} ELSE {})
      \cup (IF "open_stub" \in Range(trace) THEN {args.outfile} ELSE {})

\* Every file but the two outputs is as it was when the run started.
InputsUnchanged == \A p \in Paths \ {DepPath, OutPath} : fs[p] = pre[p]

\* C8 as stated: a run, however it ends, has written exactly the two files
\* named by --depfile and --outfile and has left every other file unchanged.
C8_EveryRunWritesExactlyTwoFiles ==
    pc \in {"done", "failed"} =>
      /\ WrittenThisRun = {DepPath, OutPath}
      /\ InputsUnchanged

\* C8 amended: a run writes no file other than the ones named by --depfile and
\* --outfile, and a successful run has written both; the metadata file, the
\* alternatives and the header are unchanged at every point of the run.
C8_WritesOnlyDepfileAndOutfile ==
    /\ WrittenThisRun \subseteq {DepPath, OutPath}
    /\ InputsUnchanged
    /\ pc = "done" => WrittenThisRun = {DepPath, OutPath}

\* A successful run over two alternatives that replaced older output files.
C8_Witness ==
    /\ pc = "done"
    /\ WrittenThisRun = {DepPath, OutPath}
    /\ pre[OutPath] = Stale
    /\ fs[OutPath] # Stale
    /\ Len(MetaOnDisk) = 2
    /\ ~prev.valid

\* The place of each file operation in the order of main().
Rank(e) ==
    CASE e = "open_metadata" -> 1 [] e = "load_metadata" -> 2 [] e = "getsize" -> 3
      [] e = "open_depfile" -> 4 [] e = "write_depfile" -> 5
      [] e = "close_depfile" -> 6 [] e = "open_stub" -> 7
      [] e = "write_template" -> 8 [] e = "write_alias" -> 9
      [] e = "close_stub" -> 10

Count(e) == Cardinality({k \in 1..Len(trace) : trace[k] = e})

\* C9: the file operations of a run happen in the order load metadata, query
\* every size, open-write-close the dependency file, open the stub, write the
\* template, write the alias blocks, close; only the size query and the alias
\* write repeat, and a successful run has done each step, one size query per
\* entry and one alias write per alias.  No output file is touched before its
\* open, and the dependency file is complete when the stub is opened.
C9_StepsInLinearOrder ==
    /\ \A a, b \in 1..Len(trace) :
         a < b => /\ Rank(trace[a]) <= Rank(trace[b])
                  /\ Rank(trace[a]) = Rank(trace[b]) =>
                       trace[a] \in {"getsize", "write_alias"}
    /\ "open_depfile" \notin Range(trace) => fs[DepPath] = pre[DepPath]
    /\ "open_stub" \notin Range(trace) => fs[OutPath] = pre[OutPath]
    /\ "open_stub" \in Range(trace) => DepLineOk /\ "close_depfile" \in Range(trace)
    /\ pc = "done" =>
         /\ \A e \in {"open_metadata", "load_metadata", "open_depfile", "write_depfile",
                      "close_depfile", "open_stub", "write_template", "close_stub"} :
              Count(e) = 1
         /\ Count("getsize") = Len(MetaOnDisk)
         /\ Count("write_alias") = Len(argv.aliases)

\* A successful run with two size queries and two alias writes.
C9_Witness ==
    /\ pc = "done"
    /\ Count("getsize") = 2
    /\ Count("write_alias") = 2
    /\ Len(trace) = 12

\* C10: a run that fails while loading the metadata or while querying a size
\* (file missing, no JSON, an entry without "path", an alternative missing)
\* leaves both output paths holding exactly what they held before the run.
C10_InputFailureLeavesOutputsUntouched ==
    (pc = "failed" /\ err \in {"FileNotFoundError", "JSONDecodeError", "KeyError"}) =>
      /\ fs[DepPath] = pre[DepPath]
      /\ fs[OutPath] = pre[OutPath]

\* A run that failed on a second entry without "path", after a valid first
\* entry, with older output files in place.
C10_Witness ==
    /\ pc = "failed"
    /\ err = "KeyError"
    /\ i = 2
    /\ Len(alternatives) = 1
    /\ pre[DepPath] = Stale
    /\ fs[DepPath] = Stale
====
